---- MODULE Spec2Model ----
(***************************************************************************)
(* PdfWriter of api-doc-baker: the style stack, the outline path array,    *)
(* the page list with its deferred header/footer pass, and the facade      *)
(* calls that drive them.  The rendering primitive (pdfkit's PDFDocument)  *)
(* is the record doc; the draw calls a facade call issues are logged in    *)
(* calls.                                                                  *)
(***************************************************************************)
EXTENDS Integers, Sequences, FiniteSets, TLC

VARIABLES
    style,               \* this.style: the style configuration in force
    currentSectionName,  \* this.currentSectionName
    pageNumber,          \* this.pageNumber
    pageHeaderNodes,     \* this.pageHeaderNodes
    docOutlines,         \* this.docOutlines (1-based here, 0-based in the code)
    styleStack,          \* this.styleStack
    doc,                 \* this.doc: the state of the rendering primitive
    calls,               \* history: the calls on this.doc issued by the last facade call
    last,                \* history: the last facade call, its inputs and how it ended
    saved,               \* history: the style stack before the last push, kept while
                         \*          the push, or the push and the pop that undoes it, are
                         \*          the latest calls
    indentRun,           \* history: left margin at the start of the current run of
                         \*          indentStart/indentEnd calls and the run's net depth
    levelsSeen           \* history: levels passed to addOutline so far

vars == <<style, currentSectionName, pageNumber, pageHeaderNodes, docOutlines,
          styleStack, doc, calls, last, saved, indentRun, levelsSeen>>

----------------------------------------------------------------------------
(* Bounds of the model *)

MaxLevel == 2      \* heading levels are drawn from 0 .. MaxLevel
MaxNodes == 3      \* outline nodes created in one run
MaxPages == 3      \* pages created in one run
MaxDepth == 3      \* style stack entries pushed by indentStart and pushStyle calls
MaxLeaks == 1      \* style stack entries under which the primitive may still throw
MaxValues == 3     \* values in a list passed to enumValues

----------------------------------------------------------------------------
(* Constants of the program *)

NORM == 0
BOLD == 1
ITALIC == 2
BOLD_ITALIC == 3
MONOSPACED == 4

fonts == <<"Helvetica", "Helvetica-Bold", "Helvetica-Oblique",
           "Helvetica-BoldOblique", "Courier-Bold">>

\* line gaps are counted in tenths of a line: 0.7 and 0.5 in the code
headerGap == 7
paraGap == 5
Line == 10

\* JavaScript's undefined for a numeric option
Undef == -1

DefaultStyle ==
    [color |-> [main |-> "#333333", secondary |-> "#6B7B8E", highlight |-> "#8A3324",
                headers |-> "#2A4D69", subHeaders |-> "#4B86B4",
                getMethod |-> "#4A90E2", putMethod |-> "#6B8E23",
                postMethod |-> "#D87F0A", patchMethod |-> "#C2A000",
                deleteMethod |-> "#D0021B", otherMethods |-> "#2A4D69"],
     font |-> [baseSize |-> 10],
     format |-> [indentStep |-> 12, horizontalMargin |-> 70, verticalMargin |-> 50]]

\* a style read from a configuration file (main: JSON.parse of --config)
ExternalStyle ==
    [DefaultStyle EXCEPT !.color.getMethod = "#00AA00",
                         !.color.otherMethods = "#101010",
                         !.font.baseSize = 12,
                         !.format.indentStep = 20,
                         !.format.horizontalMargin = 40,
                         !.format.verticalMargin = 30]

\* JavaScript's undefined for a colour option; a group of options that the
\* configuration does not have is the empty record <<>>
Undefined == "undefined"

\* configurations that leave out a recognised option or a group of options
OmitGetMethod == [ExternalStyle EXCEPT !.color.getMethod = Undefined]
OmitIndentStep == [ExternalStyle EXCEPT !.format.indentStep = Undef]
OmitColor == [ExternalStyle EXCEPT !.color = <<>>]
OmitFormat == [ExternalStyle EXCEPT !.format = <<>>]

\* the configurations a --config file may hold
ConfigArgs == {ExternalStyle, OmitGetMethod, OmitIndentStep, OmitColor, OmitFormat}

\* reading a property of a group that is undefined throws a TypeError
Absent(group) == DOMAIN group = {}

\* the constructor's second argument: absent, or a configuration
StyleArgs == {"undefined", "external"}

\* the baseline style: built from the default configuration, before an
\* external style replaces this.style
baseStyle ==
    [font |-> NORM,
     fontSize |-> DefaultStyle.font.baseSize,
     fillColor |-> DefaultStyle.color.main,
     leftMargin |-> DefaultStyle.format.horizontalMargin,
     lineGap |-> 0]

Fields == {"font", "fontSize", "fillColor", "leftMargin", "lineGap"}

EmptyPatch == <<>>

\* a new PDFDocument: pdfkit's defaults, no page yet (autoFirstPage: false);
\* styled records that setStyle has been called on it
NewDoc ==
    [font |-> "Helvetica", fontSize |-> 12, fillColor |-> "black", x |-> 0,
     pages |-> <<>>, page |-> Undef, outline |-> <<>>, ended |-> FALSE,
     styled |-> FALSE]

PageHeight == 792

----------------------------------------------------------------------------
(* The writer as a value: the facade's methods are operators from the       *)
(* writer before a call to the writer after it.  err is the exception in    *)
(* flight ("none" when there is none); ev is what the next doc.text call    *)
(* does: "ok", "newpage" (the text overflows and pdfkit adds a page) or     *)
(* "throw" (pdfkit throws).                                                 *)

Events == {"ok", "newpage", "throw"}

\* an exception is in flight: the statements that follow in the methods on the
\* call stack are not run
Thrown(m) == m.err # "none"

\* sequencing: next is the writer after the statement that follows the ones that
\* led to m
Then(m, next) == IF Thrown(m) THEN m ELSE next

\* the next statement reads a property of this.style's group: a TypeError when
\* the configuration has no such group
Reads(m, group) ==
    IF Thrown(m) \/ ~ Absent(group) THEN m ELSE [m EXCEPT !.err = "type"]

NoOpt == [continued |-> FALSE, x |-> Undef, y |-> Undef]
Continued == [continued |-> TRUE, x |-> Undef, y |-> Undef]

\* one call on this.doc, with the style active on the primitive when it is made,
\* the style stack at that time and the margins of the current page
Call(m, kind, str, opt, n) ==
    [kind |-> kind, str |-> str, opt |-> opt, n |-> n,
     font |-> m.doc.font, fontSize |-> m.doc.fontSize, fillColor |-> m.doc.fillColor,
     page |-> m.doc.page, styled |-> m.doc.styled, stack |-> m.styleStack,
     margins |-> IF m.doc.page = Undef THEN <<>> ELSE m.doc.pages[m.doc.page + 1]]

Log(m, kind, str, opt, n) ==
    [m EXCEPT !.calls = Append(@, Call(m, kind, str, opt, n))]

----------------------------------------------------------------------------
(* Style stack *)

currentStyle(m) ==
    IF Len(m.styleStack) > 0 THEN m.styleStack[Len(m.styleStack)] ELSE baseStyle

setStyle(m, st) ==
    [m EXCEPT !.doc.font = fonts[st.font + 1],
              !.doc.fontSize = st.fontSize,
              !.doc.fillColor = st.fillColor,
              !.doc.styled = TRUE]

\* faulty variant of resetStyle: the stack is not cleared
resetStyleKeepsStack(m) == setStyle(m, baseStyle)

resetStyle(m) ==
    setStyle([m EXCEPT !.styleStack = <<>>], baseStyle)

\* Object.assign({}, currentStyle(), style) for a patch that sets some fields
Merge(cur, patch) ==
    [f \in Fields |-> IF f \in DOMAIN patch THEN patch[f] ELSE cur[f]]

\* faulty variant of pushStyle: the patch's left margin replaces the current one
pushStyleOverridesMargin(m, patch) ==
    LET mergedStyle == Merge(currentStyle(m), patch)
        m1 == setStyle(m, mergedStyle)
    IN  [m1 EXCEPT !.doc.x = mergedStyle.leftMargin,
                   !.styleStack = Append(@, mergedStyle)]

pushStyle(m, patch) ==
    LET cur == currentStyle(m)
        mergedStyle ==
            [Merge(cur, patch) EXCEPT !.leftMargin =
                cur.leftMargin
                + (IF "leftMargin" \in DOMAIN patch /\ patch.leftMargin # Undef
                   THEN patch.leftMargin ELSE 0)]
        m1 == setStyle(m, mergedStyle)
    IN  [m1 EXCEPT !.doc.x = mergedStyle.leftMargin,
                   !.styleStack = Append(@, mergedStyle)]

\* Array.prototype.pop: the array without its last element; an empty array stays empty
ArrayPop(s) == IF Len(s) > 0 THEN SubSeq(s, 1, Len(s) - 1) ELSE s

\* faulty variant of popStyle: the baseline style is activated whatever is left
\* on the stack
popStyleActivatesBase(m) ==
    LET m1 == [m EXCEPT !.styleStack = ArrayPop(@)]
    IN  [setStyle(m1, baseStyle) EXCEPT !.doc.x = baseStyle.leftMargin]

popStyle(m) ==
    LET m1 == [m EXCEPT !.styleStack = ArrayPop(@)]
        prevStyle == currentStyle(m1)
    IN  [setStyle(m1, prevStyle) EXCEPT !.doc.x = prevStyle.leftMargin]

\* no try/finally: popStyle is not reached when fn throws
withStyle(m, patch, fn(_)) ==
    IF Thrown(m) THEN m
    ELSE LET m2 == fn(pushStyle(m, patch))
         IN  IF Thrown(m2) THEN m2 ELSE popStyle(m2)

----------------------------------------------------------------------------
(* The rendering primitive and the pageAdded handler *)

\* faulty variant of pageAdded: the page is counted, its section name is not recorded
pageAddedCountsOnly(m) ==
    [m EXCEPT !.pageNumber = @ + 1]

\* faulty variant of pageAdded: the running header is drawn when the page is created
pageAddedStampsHeader(m) ==
    Log([m EXCEPT !.pageNumber = @ + 1,
                  !.pageHeaderNodes = Append(@, m.currentSectionName)],
        "text", m.currentSectionName,
        [continued |-> FALSE, x |-> Undef, y |-> style.format.verticalMargin \div 2], 0)

\* this.doc.on('pageAdded', ...)
pageAdded(m) ==
    [m EXCEPT !.pageNumber = @ + 1,
              !.pageHeaderNodes = Append(@, m.currentSectionName)]

\* doc.addPage(): a page with the document's margins becomes the current page,
\* the cursor goes to its left margin, and pageAdded is emitted
docAddPage(m) ==
    LET pg == [top |-> style.format.verticalMargin,
               bottom |-> style.format.verticalMargin]
        m1 == [m EXCEPT !.doc.pages = Append(@, pg),
                        !.doc.page = Len(m.doc.pages),
                        !.doc.x = style.format.horizontalMargin]
    IN  pageAdded(Log(m1, "addPage", "", NoOpt, 0))

\* doc.text(str, ...): the pending event decides whether it throws or overflows
docText(m, str, opt) ==
    IF m.ev = "throw"
    THEN [m EXCEPT !.err = "draw", !.ev = "ok"]
    ELSE LET m1 == IF m.ev = "newpage" THEN docAddPage([m EXCEPT !.ev = "ok"]) ELSE m
         IN  Log(m1, "text", str, opt, 0)

docMoveDown(m, n) == Log(m, "moveDown", "", NoOpt, n)

docMoveUp(m) == IF Thrown(m) THEN m ELSE Log(m, "moveUp", "", NoOpt, Line)

docMeasure(m, what, str) == IF Thrown(m) THEN m ELSE Log(m, what, str, NoOpt, 0)

\* doc.lineJoin(..).lineWidth(4).rect(..).fillAndStroke(color, color):
\* fillAndStroke sets the fill colour of the primitive
docRect(m, str, color) ==
    IF Thrown(m) THEN m
    ELSE Log([m EXCEPT !.doc.fillColor = color], "rect", str, NoOpt, 0)

docSwitchToPage(m, i) ==
    Log([m EXCEPT !.doc.page = i], "switchToPage", "", NoOpt, i)

docEnd(m) ==
    Log([m EXCEPT !.doc.ended = TRUE], "end", "", NoOpt, 0)

----------------------------------------------------------------------------
(* Text *)

lineBreak(m, n) == IF Thrown(m) THEN m ELSE docMoveDown(m, n)

\* styledOpt = { lineGap: style.lineGap, ...options }; with x or y given the text
\* is placed absolutely, else it flows
textImpl(m, str, options) == docText(m, str, options)

text(m, str, patch, options) ==
    IF Thrown(m) THEN m
    ELSE IF DOMAIN patch # {}
         THEN withStyle(m, patch, LAMBDA w : textImpl(w, str, options))
         ELSE textImpl(m, str, options)

----------------------------------------------------------------------------
(* Outline *)

Root == 0

\* parent.addItem(str): a new node of the primitive's outline tree, named by its
\* position in doc.outline
addItem(m, parent, str) ==
    [m EXCEPT !.doc.outline = Append(@, [parent |-> parent, title |-> str])]

\* the path array after docOutlines[level] = newOutline; docOutlines.splice(level + 1)
Replace(path, level, node) ==
    Append(SubSeq(path, 1, level), node)

\* faulty variant of addOutline: the level is not validated against the path length
addOutlineUnchecked(m, level, str) ==
    LET outlinesLen == Len(m.docOutlines)
        parent == IF level >= 1 /\ level <= outlinesLen THEN m.docOutlines[level] ELSE Root
        m1 == addItem(m, parent, str)
        newOutline == Len(m1.doc.outline)
    IN  IF level >= 0 /\ level < outlinesLen
        THEN [m1 EXCEPT !.docOutlines = Replace(@, level, newOutline)]
        ELSE [m1 EXCEPT !.docOutlines = Append(@, newOutline)]

\* faulty variant of addOutline: the entries beyond level are kept
addOutlineKeepsTail(m, level, str) ==
    LET outlinesLen == Len(m.docOutlines)
        levelError == ~ (level = 0 \/ (level > 0 /\ level <= outlinesLen))
        m1 == addItem(m, IF level = 0 THEN Root ELSE m.docOutlines[level], str)
        newOutline == Len(m1.doc.outline)
    IN  IF levelError
        THEN [m EXCEPT !.err = "nesting"]
        ELSE IF level = outlinesLen
             THEN [m1 EXCEPT !.docOutlines = Append(@, newOutline)]
             ELSE [m1 EXCEPT !.docOutlines[level + 1] = newOutline]

\* faulty variant of addOutline: every node is added at the root
addOutlineAtRoot(m, level, str) ==
    LET outlinesLen == Len(m.docOutlines)
        levelError == ~ (level = 0 \/ (level > 0 /\ level <= outlinesLen))
        m1 == addItem(m, Root, str)
        newOutline == Len(m1.doc.outline)
    IN  IF levelError
        THEN [m EXCEPT !.err = "nesting"]
        ELSE IF level = outlinesLen
             THEN [m1 EXCEPT !.docOutlines = Append(@, newOutline)]
             ELSE [m1 EXCEPT !.docOutlines = Replace(@, level, newOutline)]

\* faulty variant of addOutline: below the end of the path the entries beyond
\* level are discarded but the entry at level is not replaced
addOutlineTruncatesOnly(m, level, str) ==
    LET outlinesLen == Len(m.docOutlines)
        levelError == ~ (level = 0 \/ (level > 0 /\ level <= outlinesLen))
        m1 == addItem(m, IF level = 0 THEN Root ELSE m.docOutlines[level], str)
        newOutline == Len(m1.doc.outline)
    IN  IF levelError
        THEN [m EXCEPT !.err = "nesting"]
        ELSE IF level = outlinesLen
             THEN [m1 EXCEPT !.docOutlines = Append(@, newOutline)]
             ELSE [m1 EXCEPT !.docOutlines = SubSeq(@, 1, level + 1)]

addOutline(m, level, str) ==
    LET outlinesLen == Len(m.docOutlines)
        \* first if / else if / else: the node is created, or levelError is set
        created == level = 0 \/ (level > 0 /\ level <= outlinesLen)
        m1 == IF level = 0
              THEN addItem(m, Root, str)
              ELSE IF level > 0 /\ level <= outlinesLen
                   THEN addItem(m, m.docOutlines[level], str)
                   ELSE m
        newOutline == Len(m1.doc.outline)
        \* if (!levelError): the path array is updated, or levelError is set
        m2 == IF ~ created
              THEN m1
              ELSE IF level = outlinesLen
                   THEN [m1 EXCEPT !.docOutlines = Append(@, newOutline)]
                   ELSE IF level < outlinesLen
                        THEN [m1 EXCEPT !.docOutlines = Replace(@, level, newOutline)]
                        ELSE m1
        levelError == ~ created \/ level > outlinesLen
    IN  IF levelError THEN [m2 EXCEPT !.err = "nesting"] ELSE m2

----------------------------------------------------------------------------
(* Headings *)

\* the block header() passes to withStyle
headerBlock(m, str) ==
    lineBreak(text(m, str, EmptyPatch, NoOpt), headerGap)

\* faulty variant of header: the level is validated, and the node added, before
\* the heading is drawn
headerValidatesFirst(m, level, str) ==
    LET m1 == addOutline(Reads(Reads(m, style.color), style.font), level, str)
    IN  withStyle(m1,
                  [fillColor |-> style.color.headers, font |-> BOLD,
                   fontSize |-> style.font.baseSize + 4 - level * 2],
                  LAMBDA w : headerBlock(w, str))

header(m, level, str) ==
    LET m1 == withStyle(Reads(Reads(m, style.color), style.font),
                  [fillColor |-> style.color.headers, font |-> BOLD,
                   fontSize |-> style.font.baseSize + 4 - level * 2],
                  LAMBDA w : headerBlock(w, str))
    IN  Then(m1, addOutline(m1, level, str))

Methods == {"GET", "TRACE"}

\* method tokens in several spellings, mapped and unmapped
AllMethods == {"GET", "get", "Put", "POST", "Patch", "DELETE", "TRACE", "options",
               "Constructor"}

\* method.toLowerCase(), on the method tokens of the model
toLowerCase(method) ==
    CASE method = "GET" -> "get"
      [] method = "Put" -> "put"
      [] method = "POST" -> "post"
      [] method = "Patch" -> "patch"
      [] method = "DELETE" -> "delete"
      [] method = "TRACE" -> "trace"
      [] method = "Constructor" -> "constructor"
      [] OTHER -> method

\* colorByMethod is an object literal: a key it does not have is looked up in
\* Object.prototype, which has constructor (and __proto__)
ObjectPrototype == {"constructor", "__proto__"}
Inherited == "[inherited]"

\* colorByMethod[method.toLowerCase()] ?? this.style.color.otherMethods
methodColor(method) ==
    LET k == toLowerCase(method)
        mapped == CASE k = "get" -> style.color.getMethod
                    [] k = "put" -> style.color.putMethod
                    [] k = "post" -> style.color.postMethod
                    [] k = "patch" -> style.color.patchMethod
                    [] k = "delete" -> style.color.deleteMethod
                    [] k \in ObjectPrototype -> Inherited
                    [] OTHER -> Undefined
    IN  IF mapped # Undefined THEN mapped ELSE style.color.otherMethods

\* faulty variant of apiHeaderBlock: the label over the banner is drawn without a
\* style of its own
apiHeaderBlockPlainLabel(m, method, endpoint) ==
    LET color == methodColor(method)
        m1 == docMeasure(m, "widthOfString", method)
        m2 == docMeasure(m1, "heightOfString", method)
        m3 == text(m2, method, EmptyPatch, Continued)
        m4 == text(m3, " ", EmptyPatch, NoOpt)
        m5 == docMoveUp(m4)
        m6 == docRect(m5, method, color)
        m7 == text(m6, method, EmptyPatch, Continued)
        m8 == text(m7, "  " \o endpoint, [fillColor |-> style.color.headers], NoOpt)
    IN  lineBreak(m8, headerGap)

\* the block apiHeader() passes to withStyle
\* faulty variant of apiHeaderBlock: the rectangle is drawn before the label has
\* been printed to establish the flow position
apiHeaderBlockRectFirst(m, method, endpoint) ==
    LET color == methodColor(method)
        m1 == docMeasure(m, "widthOfString", method)
        m2 == docMeasure(m1, "heightOfString", method)
        m3 == docRect(m2, method, color)
        m4 == text(m3, method, EmptyPatch, Continued)
        m5 == text(m4, " ", EmptyPatch, NoOpt)
        m6 == docMoveUp(m5)
        m7 == text(m6, method, [fillColor |-> "white"], Continued)
        m8 == text(m7, "  " \o endpoint, [fillColor |-> style.color.headers], NoOpt)
    IN  lineBreak(m8, headerGap)

apiHeaderBlock(m, method, endpoint) ==
    LET color == methodColor(method)
        m1 == docMeasure(m, "widthOfString", method)
        m2 == docMeasure(m1, "heightOfString", method)
        m3 == text(m2, method, EmptyPatch, Continued)
        m4 == text(m3, " ", EmptyPatch, NoOpt)
        m5 == docMoveUp(m4)
        m6 == docRect(m5, method, color)
        m7 == text(m6, method, [fillColor |-> "white"], Continued)
        m8 == text(m7, "  " \o endpoint, [fillColor |-> style.color.headers], NoOpt)
    IN  lineBreak(m8, headerGap)

apiHeader(m, method, endpoint, headerLevel) ==
    LET fontSize == style.font.baseSize + 2
        m1 == withStyle(Reads(Reads(m, style.font), style.color),
                        [font |-> BOLD, fontSize |-> fontSize],
                        LAMBDA w : apiHeaderBlock(w, method, endpoint))
    IN  Then(m1, addOutline(m1, headerLevel, method \o " " \o endpoint))

----------------------------------------------------------------------------
(* Sections, paragraphs and the finishing pass *)

addTitlePage(m, title, subtitle, date) ==
    LET m1 == docAddPage(m)
        m2 == text(m1, title, [font |-> BOLD, fontSize |-> 20], NoOpt)
        m3 == lineBreak(m2, Line)
        m4 == IF subtitle # ""
              THEN lineBreak(text(m3, subtitle, [font |-> NORM, fontSize |-> 14], NoOpt),
                             5)
              ELSE m3
    IN  IF date # ""
        THEN text(Reads(m4, style.color), date,
                  [font |-> NORM, fontSize |-> 12,
                   fillColor |-> style.color.secondary], NoOpt)
        ELSE m4

newSection(m, name) ==
    docAddPage(resetStyle([m EXCEPT !.currentSectionName = name]))

indentStart(m) == pushStyle(m, [leftMargin |-> style.format.indentStep])

indentEnd(m) == popStyle(m)

para(m, str) ==
    lineBreak(text(m, str, EmptyPatch, NoOpt), paraGap)

\* faulty variant of enumLoop: every value is followed by a comma
RECURSIVE enumLoopAllCommas(_, _, _, _)
enumLoopAllCommas(m, values, index, nextLineIndent) ==
    IF index >= Len(values)
    THEN m
    ELSE LET continued == index < Len(values) - 1
             opt == [continued |-> continued,
                     x |-> IF index = 0 THEN nextLineIndent ELSE Undef, y |-> Undef]
         IN  enumLoopAllCommas(text(m, values[index + 1] \o ", ", EmptyPatch, opt),
                               values, index + 1, nextLineIndent)

\* values.forEach((value, index, array) => ...) from index on (the indent option
\* of the first run is not modelled)
RECURSIVE enumLoop(_, _, _, _)
enumLoop(m, values, index, nextLineIndent) ==
    IF index >= Len(values)
    THEN m
    ELSE LET str == IF index < Len(values) - 1
                    THEN values[index + 1] \o ", " ELSE values[index + 1]
             continued == index < Len(values) - 1
             opt == [continued |-> continued,
                     x |-> IF index = 0 THEN nextLineIndent ELSE Undef, y |-> Undef]
         IN  enumLoop(text(m, str, EmptyPatch, opt), values, index + 1, nextLineIndent)

enumValues(m, values) ==
    LET m2 == docMoveUp(text(m, "Values: ", EmptyPatch, NoOpt))
        nextLineIndent == m2.doc.x + style.format.indentStep
    IN  withStyle(docMeasure(m2, "widthOfString", "Values: "),
                  [fillColor |-> style.color.highlight],
                  LAMBDA w : enumLoop(w, values, 0, nextLineIndent))

\* `Page ${i} / ${pages.count - 1}`
pageLabel(i, count) == "Page " \o ToString(i) \o " / " \o ToString(count - 1)

At(y) == [continued |-> FALSE, x |-> Undef, y |-> y]

\* faulty variant of stampBlock: the running header is the section name current
\* when finish() runs
stampBlockCurrentName(m, i, count, origTop, origBottom) ==
    LET m1 == IF m.currentSectionName # ""
              THEN text(m, m.currentSectionName, EmptyPatch, At(origTop \div 2))
              ELSE m
    IN  text(m1, pageLabel(i, count), EmptyPatch, At(PageHeight - origBottom \div 2))

\* the block finish() passes to withStyle for page i
stampBlock(m, i, count, origTop, origBottom) ==
    LET hasName == i + 1 <= Len(m.pageHeaderNodes) /\ m.pageHeaderNodes[i + 1] # ""
        m1 == IF hasName
              THEN text(m, m.pageHeaderNodes[i + 1], EmptyPatch, At(origTop \div 2))
              ELSE m
    IN  text(m1, pageLabel(i, count), EmptyPatch, At(PageHeight - origBottom \div 2))

\* faulty variant of finishPage: the title page is stamped like the others
finishPageStampsAll(m, i, count) ==
    LET m1 == docSwitchToPage(m, i)
        origTop == m1.doc.pages[i + 1].top
        origBottom == m1.doc.pages[i + 1].bottom
        m2 == [m1 EXCEPT !.doc.pages[i + 1] = [top |-> 0, bottom |-> 0]]
        m3 == withStyle(m2, [font |-> NORM, fontSize |-> 9,
                             fillColor |-> style.color.secondary],
                        LAMBDA w : stampBlock(w, i, count, origTop, origBottom))
    IN  Then(m3, [m3 EXCEPT !.doc.pages[i + 1] =
                                [top |-> origTop, bottom |-> origBottom]])

\* faulty variant of finishPage: the margins of the page are left at zero
finishPageKeepsZero(m, i, count) ==
    LET m1 == docSwitchToPage(m, i)
        origTop == m1.doc.pages[i + 1].top
        origBottom == m1.doc.pages[i + 1].bottom
        m2 == [m1 EXCEPT !.doc.pages[i + 1] = [top |-> 0, bottom |-> 0]]
    IN  IF i > 0
        THEN withStyle(Reads(m2, style.color),
                       [font |-> NORM, fontSize |-> 9,
                        fillColor |-> style.color.secondary],
                       LAMBDA w : stampBlock(w, i, count, origTop, origBottom))
        ELSE m2

\* one turn of the loop of finish()
finishPage(m, i, count) ==
    LET m1 == docSwitchToPage(m, i)
        origTop == m1.doc.pages[i + 1].top
        origBottom == m1.doc.pages[i + 1].bottom
        m2 == [m1 EXCEPT !.doc.pages[i + 1] = [top |-> 0, bottom |-> 0]]
        m3 == IF i > 0
              THEN withStyle(Reads(m2, style.color),
                             [font |-> NORM, fontSize |-> 9,
                              fillColor |-> style.color.secondary],
                             LAMBDA w : stampBlock(w, i, count, origTop, origBottom))
              ELSE m2
    IN  Then(m3, [m3 EXCEPT !.doc.pages[i + 1] =
                                [top |-> origTop, bottom |-> origBottom]])

RECURSIVE finishLoop(_, _, _)
finishLoop(m, i, count) ==
    IF i < count /\ ~ Thrown(m)
    THEN finishLoop(finishPage(m, i, count), i + 1, count)
    ELSE m

\* faulty variant of finish: the document is sealed before the pages are stamped
finishSealsFirst(m) ==
    LET m1 == docEnd(m)
    IN  finishLoop(m1, 0, Len(m1.doc.pages))

\* pages = doc.bufferedPageRange(): with bufferPages every page is still buffered
finish(m) ==
    LET m1 == finishLoop(m, 0, Len(m.doc.pages))
    IN  Then(m1, docEnd(m1))

----------------------------------------------------------------------------
(* State machine: one action per facade call *)

SectionNames == {"Pets", "Users"}
Levels == 0 .. MaxLevel
Patches == {[font |-> ITALIC],
            [fillColor |-> "#8A3324", fontSize |-> 8],
            [leftMargin |-> 5, lineGap |-> 2]}
Subtitles == {"", "v1"}

\* new PdfWriter(outputFilePath, st): an external style replaces this.style as it
\* is; the margins of the PDFDocument are then read from this.style.format
New(st) ==
    /\ style = st
    /\ currentSectionName = ""
    /\ pageNumber = 0
    /\ pageHeaderNodes = <<>>
    /\ docOutlines = <<>>
    /\ styleStack = <<>>
    /\ doc = NewDoc
    /\ calls = <<>>
    /\ last = [op |-> "new", level |-> Undef, ev |-> "ok",
               err |-> IF Absent(st.format) THEN "type" ELSE "none", depth |-> 0,
               values |-> <<>>]
    /\ saved = <<>>
    /\ indentRun = [base |-> baseStyle.leftMargin, depth |-> 0]
    /\ levelsSeen = [max |-> -1, valid |-> TRUE, lastOk |-> -1]

Init ==
    \E arg \in StyleArgs :
        New(IF arg = "undefined" THEN DefaultStyle ELSE ExternalStyle)

\* main with --config: the writer is constructed with what JSON.parse returned
InitConfig ==
    \E st \in ConfigArgs : New(st)

\* the constructor returned: there is a writer to call
Constructed == ~ (last.op = "new" /\ last.err # "none")

\* the writer at the start of a facade call during which doc.text meets ev
This(ev) ==
    [styleStack |-> styleStack, docOutlines |-> docOutlines,
     pageHeaderNodes |-> pageHeaderNodes, pageNumber |-> pageNumber,
     currentSectionName |-> currentSectionName, doc |-> doc,
     calls |-> <<>>, err |-> "none", ev |-> ev]

Max(a, b) == IF a >= b THEN a ELSE b

\* the writer after a facade call, and the history of the call: values is the
\* list the call was given, if it takes one
ReturnOf(m, op, level, ev, values) ==
    /\ Constructed
    /\ style' = style
    /\ styleStack' = m.styleStack
    /\ docOutlines' = m.docOutlines
    /\ pageHeaderNodes' = m.pageHeaderNodes
    /\ pageNumber' = m.pageNumber
    /\ currentSectionName' = m.currentSectionName
    /\ doc' = m.doc
    /\ calls' = m.calls
    /\ last' = [op |-> op, level |-> level, ev |-> ev, err |-> m.err,
                depth |-> Len(styleStack), values |-> values]
    /\ saved' =
          IF op \in {"pushStyle", "indentStart"}
          THEN <<[styleStack |-> styleStack, popped |-> FALSE]>>
          ELSE IF op \in {"popStyle", "indentEnd"} /\ saved # <<>> /\ ~ saved[1].popped
               THEN <<[saved[1] EXCEPT !.popped = TRUE]>>
               ELSE <<>>
    /\ indentRun' =
          IF op = "indentStart"
          THEN [indentRun EXCEPT !.depth = @ + 1]
          ELSE IF op = "indentEnd" /\ indentRun.depth > 0
               THEN [indentRun EXCEPT !.depth = @ - 1]
               ELSE [base |-> currentStyle(m).leftMargin, depth |-> 0]
    /\ levelsSeen' =
          IF op \in {"header", "apiHeader"} /\ m.err # "draw"
          THEN [max |-> Max(levelsSeen.max, level),
                valid |-> levelsSeen.valid /\ level <= levelsSeen.max + 1,
                lastOk |-> IF m.err = "none" THEN level ELSE levelsSeen.lastOk]
          ELSE levelsSeen

Return(m, op, level, ev) == ReturnOf(m, op, level, ev, <<>>)

\* the bounds: n pages added by the call itself, one more when the text overflows;
\* a throw inside withStyle leaves an entry on the stack
Bounded(n, ev) ==
    /\ pageNumber + n + (IF ev = "newpage" THEN 1 ELSE 0) <= MaxPages
    /\ ev = "throw" => Len(styleStack) < MaxLeaks

AddTitlePage(E) ==
    \E subtitle \in Subtitles, ev \in E :
        /\ Bounded(1, ev)
        /\ Return(addTitlePage(This(ev), "API Spec", subtitle, "2024-01-01"),
                  "addTitlePage", Undef, ev)

NewSection(names) ==
    \E name \in names :
        /\ Bounded(1, "ok")
        /\ Return(newSection(This("ok"), name), "newSection", Undef, "ok")

IndentStart ==
    /\ Len(styleStack) < MaxDepth
    /\ Return(indentStart(This("ok")), "indentStart", Undef, "ok")

IndentEnd ==
    Return(indentEnd(This("ok")), "indentEnd", Undef, "ok")

PushStyle ==
    \E patch \in Patches :
        /\ Len(styleStack) < MaxDepth
        /\ Return(pushStyle(This("ok"), patch), "pushStyle", Undef, "ok")

PopStyle ==
    Return(popStyle(This("ok")), "popStyle", Undef, "ok")

Text(E) ==
    \E patch \in Patches \cup {EmptyPatch}, ev \in E :
        /\ Bounded(0, ev)
        /\ Return(text(This(ev), "text", patch, NoOpt), "text", Undef, ev)

Para(E) ==
    \E ev \in E :
        /\ Bounded(0, ev)
        /\ Return(para(This(ev), "para"), "para", Undef, ev)

Header(E) ==
    \E level \in Levels, ev \in E :
        /\ Bounded(0, ev)
        /\ Len(doc.outline) < MaxNodes
        /\ Return(header(This(ev), level, "Title"), "header", level, ev)

ApiHeaderOf(methods, levels, E) ==
    \E method \in methods, level \in levels, ev \in E :
        /\ Bounded(0, ev)
        /\ Len(doc.outline) < MaxNodes
        /\ Return(apiHeader(This(ev), method, "/users", level), "apiHeader", level, ev)

ApiHeader(E) == ApiHeaderOf(Methods, Levels, E)

Values == {"A", "B", "C"}

\* the lists of at most n values
RECURSIVE Lists(_)
Lists(n) ==
    IF n = 0 THEN {<<>>}
    ELSE Lists(n - 1) \cup {Append(l, v) : l \in {x \in Lists(n - 1) : Len(x) = n - 1},
                                           v \in Values}

EnumValues(E) ==
    \E values \in Lists(MaxValues), ev \in E :
        /\ Bounded(0, ev)
        /\ ReturnOf(enumValues(This(ev), values), "enumValues", Undef, ev, values)

Finish(E) ==
    \E ev \in E :
        /\ Bounded(0, ev)
        /\ Return(finish(This(ev)), "finish", Undef, ev)

\* every facade call, with every behaviour of the rendering primitive
Next ==
    \/ AddTitlePage(Events)
    \/ NewSection(SectionNames)
    \/ IndentStart
    \/ IndentEnd
    \/ PushStyle
    \/ PopStyle
    \/ Text(Events)
    \/ Para(Events)
    \/ Header(Events)
    \/ ApiHeader(Events)
    \/ EnumValues(Events)
    \/ Finish(Events \ {"newpage"})

Spec == Init /\ [][Next]_vars

\* The three structures of the writer are independent of each other (no call
\* reads one to update another), so each is also explored on its own, with the
\* calls that write it and the behaviours of the primitive that matter to it.

\* the style stack: the calls that push, pop, reset or leak a style
NextStyle ==
    \/ IndentStart
    \/ IndentEnd
    \/ PushStyle
    \/ PopStyle
    \/ Text(Events)
    \/ NewSection({"Pets"})

SpecStyle == Init /\ [][NextStyle]_vars

\* the active style: the calls that set a style on the primitive or fill a banner
NextActive ==
    \/ PopStyle
    \/ Text({"ok", "throw"})
    \/ ApiHeaderOf(Methods, {0}, {"ok", "throw"})
    \/ NewSection({"Pets"})

SpecActive == Init /\ [][NextActive]_vars

\* a writer constructed from a configuration file: the calls that read the
\* options of this.style
NextConfig ==
    \/ IndentStart
    \/ IndentEnd
    \/ ApiHeader({"ok"})

SpecConfig == InitConfig /\ [][NextConfig]_vars

\* a writer constructed from a configuration file: the calls that create pages,
\* and the finishing pass
NextConfigPages ==
    \/ AddTitlePage({"ok"})
    \/ NewSection({"Pets"})
    \/ Finish({"ok"})

SpecConfigPages == InitConfig /\ [][NextConfigPages]_vars

\* main: the writer is constructed, addTitlePage is called (an exception there
\* ends the program), every input file is parsed (an exception is caught and the
\* next file is parsed), and parser.done() ends the document.  The parser's
\* calls on the writer are those of the caller's contract: any calls during the
\* parse, finish() once from done().
Parsing ==
    /\ last.op \notin {"new", "finish"}
    /\ ~ (last.op = "addTitlePage" /\ last.err # "none")

ParserParse ==
    /\ Parsing
    /\ \/ NewSection(SectionNames)
       \/ IndentStart
       \/ Para(Events)

ParserDone ==
    /\ Parsing
    /\ Finish({"ok", "throw"})

NextMain ==
    \/ (last.op = "new" /\ AddTitlePage({"ok", "throw"}))
    \/ ParserParse
    \/ ParserDone

SpecMain == Init /\ [][NextMain]_vars

\* banners: apiHeader with every method token of the model
NextBanner ==
    ApiHeaderOf(AllMethods, {0, 1}, {"ok"})

SpecBanner == Init /\ [][NextBanner]_vars

\* value lists: enumValues at several left margins
NextEnum ==
    \/ EnumValues({"ok", "throw"})
    \/ IndentStart
    \/ IndentEnd

SpecEnum == Init /\ [][NextEnum]_vars

\* the finishing pass, on documents of several pages and with styles pushed
NextFinish ==
    \/ NewSection(SectionNames)
    \/ IndentStart
    \/ Finish({"ok", "throw"})

SpecFinish == Init /\ [][NextFinish]_vars

\* the outline: the calls that reach addOutline, and newSection
NextOutline ==
    \/ Header({"ok"})
    \/ ApiHeader({"ok"})
    \/ NewSection({"Pets"})

SpecOutline == Init /\ [][NextOutline]_vars

\* headings, with section headings whose drawing may fail before addOutline is
\* reached
NextHeadings ==
    \/ Header({"ok", "throw"})
    \/ ApiHeader({"ok"})

SpecHeadings == Init /\ [][NextHeadings]_vars

\* the page list: the calls that add pages, overflowing text, and the finishing pass
NextPages ==
    \/ AddTitlePage({"ok", "newpage"})
    \/ NewSection(SectionNames)
    \/ Para({"ok", "newpage"})
    \/ Finish({"ok"})

SpecPages == Init /\ [][NextPages]_vars

----------------------------------------------------------------------------
(* Properties *)

HeaderOps == {"header", "apiHeader"}

\* the style the primitive draws with
Active(d) == [font |-> d.font, fontSize |-> d.fontSize, fillColor |-> d.fillColor]

\* what setStyle(st) makes active
ActiveOf(st) == [font |-> fonts[st.font + 1], fontSize |-> st.fontSize,
                 fillColor |-> st.fillColor]

\* currentStyle() of a given stack
TopOf(stack) == IF Len(stack) > 0 THEN stack[Len(stack)] ELSE baseStyle

\* C1: header and apiHeader called with a level greater than the length of the
\* path array fail, with the nesting error unless drawing the heading threw
\* first, and leave the path array as it was.
C1_DeepLevelFailsPathKept ==
    [][(last'.op \in HeaderOps /\ last'.level > Len(docOutlines))
         => /\ docOutlines' = docOutlines
            /\ last'.err = IF last'.ev = "throw" THEN "draw" ELSE "nesting"]_vars

C1_Witness ==
    /\ last.op = "apiHeader"
    /\ last.err = "nesting"
    /\ last.level > Len(docOutlines)
    /\ Len(docOutlines) > 0

\* C2 as stated: when every level was at most the previous maximum level + 1, the
\* path array is as long as the maximum level seen + 1.
C2_LengthIsMaxLevelPlusOne ==
    levelsSeen.valid => Len(docOutlines) = levelsSeen.max + 1

\* C2 amended: the path array is as long as the level of the last successful
\* heading + 1 (empty when there was none), which is at most the maximum level
\* seen + 1.
C2_LengthIsLastLevelPlusOne ==
    /\ Len(docOutlines) = levelsSeen.lastOk + 1
    /\ Len(docOutlines) <= levelsSeen.max + 1

C2_Witness ==
    /\ levelsSeen.valid
    /\ levelsSeen.max = 1
    /\ levelsSeen.lastOk = 0
    /\ last.err = "none"

\* the path array is a chain from a root item down
Chain(path, outline) ==
    \A k \in 1 .. Len(path) :
        outline[path[k]].parent = IF k = 1 THEN Root ELSE path[k - 1]

\* C3: a node created at level >= 1 is a child of the node docOutlines[level-1]
\* held when the call was made, a node created at level 0 is a root item, nodes
\* are never re-parented, and the path array is always a chain from a root item.
C3_NodesNestUnderPath ==
    [][/\ \A n \in 1 .. Len(doc.outline) : doc'.outline[n] = doc.outline[n]
       /\ \A n \in Len(doc.outline) + 1 .. Len(doc'.outline) :
             doc'.outline[n].parent =
                 IF last'.level = 0 THEN Root ELSE docOutlines[last'.level]
       /\ Chain(docOutlines', doc'.outline)]_vars

C3_Witness ==
    /\ Len(docOutlines) = 3
    /\ last.op = "header"
    /\ last.level = 2
    /\ last.err = "none"

\* C4: a call whose block fails inside withStyle leaves the style stack, the
\* active style and the left margin as they were before the call.
C4_StyleRestoredOnError ==
    [][last'.err = "draw"
         => /\ styleStack' = styleStack
            /\ Active(doc') = Active(doc)
            /\ doc'.x = doc.x]_vars

\* C5: pushStyle(P) followed at once by popStyle() leaves the style stack with
\* the contents it had before the push, and the style that was current then,
\* every field of it, is current again and active on the primitive.
C5_PushPopRestores ==
    (saved # <<>> /\ saved[1].popped)
        => /\ styleStack = saved[1].styleStack
           /\ Active(doc) = ActiveOf(TopOf(saved[1].styleStack))
           /\ doc.x = TopOf(saved[1].styleStack).leftMargin

C5_Witness ==
    /\ saved # <<>>
    /\ saved[1].popped
    /\ last.op = "popStyle"
    /\ Len(styleStack) > 0
    /\ TopOf(styleStack).leftMargin # baseStyle.leftMargin

\* C6: within a run of indentStart/indentEnd calls that does not pop below its
\* starting depth, the left margin is the margin at the start of the run plus
\* the net depth of the run times the indent step.
C6_IndentIsAdditive ==
    TopOf(styleStack).leftMargin
        = indentRun.base + indentRun.depth * style.format.indentStep

\* indentStart(); indentStart(); indentEnd() from a margin that is not the baseline's
C6_Witness ==
    /\ last.op = "indentEnd"
    /\ indentRun.depth = 1
    /\ indentRun.base # baseStyle.leftMargin
    /\ TopOf(styleStack).leftMargin = indentRun.base + style.format.indentStep

\* C7: after newSection the path array is empty.
C7_NewSectionEmptiesPath ==
    last.op = "newSection" => Len(docOutlines) = 0

\* C8: after newSection the style stack is empty and the baseline style is the
\* current style and the one active on the primitive.
C8_NewSectionResetsStyle ==
    last.op = "newSection"
        => /\ styleStack = <<>>
           /\ Active(doc) = ActiveOf(baseStyle)

C8_Witness ==
    /\ last.op = "newSection"
    /\ last.depth = MaxDepth
    /\ styleStack = <<>>

\* the text calls of the last facade call
Texts == SelectSeq(calls, LAMBDA c : c.kind = "text")

\* C9: finish() on a document of total >= 1 pages stamps total - 1 footers, the
\* i-th on page i reading "Page i / (total-1)", and draws no text on page 0.
C9_FootersOnAllButTitle ==
    (last.op = "finish" /\ last.err = "none" /\ pageNumber >= 1)
        => LET total == Len(doc.pages)
               footers == SelectSeq(Texts, LAMBDA c :
                              c.opt.y = PageHeight - style.format.verticalMargin \div 2)
           IN  /\ Len(footers) = total - 1
               /\ \A i \in 1 .. total - 1 :
                     /\ footers[i].page = i
                     /\ footers[i].str =
                            "Page " \o ToString(i) \o " / " \o ToString(total - 1)
               /\ \A k \in 1 .. Len(Texts) : Texts[k].page # 0

C9_Witness ==
    /\ last.op = "finish"
    /\ last.err = "none"
    /\ pageNumber = 3

\* C10: the page list is as long as the number of pages created and as the page
\* counter, it only grows at its end, and every entry added is the section name
\* current when its page was created.
C10_PageListRecordsSections ==
    [][/\ Len(pageHeaderNodes') = Len(doc'.pages)
       /\ Len(pageHeaderNodes') = pageNumber'
       /\ Len(pageHeaderNodes') >= Len(pageHeaderNodes)
       /\ SubSeq(pageHeaderNodes', 1, Len(pageHeaderNodes)) = pageHeaderNodes
       /\ \A i \in Len(pageHeaderNodes) + 1 .. Len(pageHeaderNodes') :
             pageHeaderNodes'[i] = currentSectionName']_vars

C10_Witness ==
    /\ last.op = "newSection"
    /\ Len(pageHeaderNodes) = 3
    /\ pageHeaderNodes[2] # pageHeaderNodes[3]
    /\ pageHeaderNodes[3] = currentSectionName

\* the texts of the last facade call placed at a given height of a given page
StampsAt(page, y) == SelectSeq(Texts, LAMBDA c : c.page = page /\ c.opt.y = y)

\* C11: a call other than finish(), whether or not it creates pages, draws no
\* text at an absolute height and no section name; finish() draws, on every page
\* after the title page, the page's recorded section name once at the top when
\* there is one, and one footer at the bottom, on the pages that exist already.
C11_StampingDeferred ==
    LET top == style.format.verticalMargin \div 2
        bottom == PageHeight - style.format.verticalMargin \div 2
    IN  /\ last.op # "finish"
              => \A k \in 1 .. Len(Texts) :
                    /\ Texts[k].opt.y = Undef
                    /\ Texts[k].str \notin SectionNames
        /\ (last.op = "finish" /\ last.err = "none")
              => /\ \A k \in 1 .. Len(calls) : calls[k].kind # "addPage"
                 /\ \A i \in 1 .. Len(doc.pages) - 1 :
                       /\ Len(StampsAt(i, bottom)) = 1
                       /\ IF pageHeaderNodes[i + 1] # ""
                          THEN /\ Len(StampsAt(i, top)) = 1
                               /\ StampsAt(i, top)[1].str = pageHeaderNodes[i + 1]
                          ELSE StampsAt(i, top) = <<>>
                 /\ StampsAt(0, top) = <<>>
                 /\ StampsAt(0, bottom) = <<>>

\* a finishing pass over three pages, the last two of different sections
C11_Witness ==
    /\ last.op = "finish"
    /\ last.err = "none"
    /\ Len(doc.pages) = 3
    /\ pageHeaderNodes[2] = "Pets"
    /\ pageHeaderNodes[3] = "Users"
    /\ Len(StampsAt(2, style.format.verticalMargin \div 2)) = 1

Recognised ==
    [color |-> {"getMethod", "putMethod", "postMethod", "patchMethod",
                "deleteMethod", "otherMethods"},
     font |-> {"baseSize"},
     format |-> {"indentStep", "horizontalMargin", "verticalMargin"}]

\* option o of group g is given by configuration st
Given(st, g, o) == ~ Absent(st[g]) /\ st[g][o] \notin {Undefined, Undef}

\* C13 as stated: the style in force has, for every recognised option, the value
\* the configuration gives, or the default when the configuration omits it.
C13_OmittedOptionsTakeDefaults ==
    \E st \in ConfigArgs :
        \A g \in DOMAIN Recognised :
            /\ ~ Absent(style[g])
            /\ \A o \in Recognised[g] :
                  style[g][o] = IF Given(st, g, o) THEN st[g][o] ELSE DefaultStyle[g][o]

StackOps == {"pushStyle", "popStyle", "indentStart", "indentEnd"}

\* C14 as stated: text drawn with an empty style stack, once a style has been
\* set, has the base font size of the style in force, and the cursor left
\* position set by a push or a pop is the horizontal margin of the style in
\* force plus the left margins pushed since.
C14_BaselineFollowsConfig ==
    /\ \A k \in 1 .. Len(Texts) :
          (Texts[k].styled /\ Texts[k].stack = <<>>)
              => Texts[k].fontSize = style.font.baseSize
    /\ last.op \in StackOps
          => doc.x = style.format.horizontalMargin
                       + (TopOf(styleStack).leftMargin - baseStyle.leftMargin)

\* C15 as stated: a call fails because of the configuration only while no page
\* has been created.
C15_ConfigErrorBeforeAnyPage ==
    last.err = "type" => pageNumber = 0

\* the positions of the seal operation among the calls of a facade call
Seals(cs) == {k \in 1 .. Len(cs) : cs[k].kind = "end"}

ConfiguredColor(method) ==
    CASE method \in {"GET", "get"} -> style.color.getMethod
      [] method \in {"PUT", "Put", "put"} -> style.color.putMethod
      [] method \in {"POST", "post"} -> style.color.postMethod
      [] method \in {"PATCH", "Patch", "patch"} -> style.color.patchMethod
      [] method \in {"DELETE", "delete"} -> style.color.deleteMethod
      [] OTHER -> style.color.otherMethods

\* C17 as stated: the banner of apiHeader(method, ...) is filled with the
\* configured colour of the method when the method is one of get, put, post,
\* patch, delete in any letter case, and with the otherMethods colour otherwise.
C17_BannerColourByMethod ==
    \A k \in 1 .. Len(calls) :
        calls[k].kind = "rect" => calls[k].fillColor = ConfiguredColor(calls[k].str)

\* the texts of the last facade call drawn in the highlight colour
Runs == SelectSeq(Texts, LAMBDA c : c.fillColor = style.color.highlight)

\* C18: enumValues on a list of n >= 1 values draws, after the label, exactly n
\* text runs in list order: every run but the last is the value followed by
\* ", " and is continued, the last is the value alone and is not continued.
C18_EnumRuns ==
    (last.op = "enumValues" /\ last.err = "none" /\ Len(last.values) >= 1)
        => LET n == Len(last.values)
           IN  /\ Len(Runs) = n
               /\ Len(Texts) = n + 1
               /\ \A i \in 1 .. n - 1 :
                     /\ Runs[i].str = last.values[i] \o ", "
                     /\ Runs[i].opt.continued
               /\ Runs[n].str = last.values[n]
               /\ ~ Runs[n].opt.continued

\* enumValues(["A", "B", "C"])
C18_Witness ==
    /\ last.op = "enumValues"
    /\ last.err = "none"
    /\ last.values = <<"A", "B", "C">>
    /\ Len(Runs) = 3
    /\ Runs[1].str = "A, "

\* C19: a heading call that succeeds at level leaves a path array of length
\* level + 1 whose entry at level is the node just created and whose entries below
\* level are those it had; at level = the length before, the path is the old one
\* with the node appended.
C19_PathAfterAddOutline ==
    [][(last'.op \in HeaderOps /\ last'.err = "none")
         => LET level == last'.level
                newOutline == Len(doc'.outline)
            IN  /\ newOutline = Len(doc.outline) + 1
                /\ Len(docOutlines') = level + 1
                /\ docOutlines'[level + 1] = newOutline
                /\ SubSeq(docOutlines', 1, level) = SubSeq(docOutlines, 1, level)
                /\ level = Len(docOutlines)
                      => docOutlines' = Append(docOutlines, newOutline)]_vars

\* a heading at level 0 after headings at levels 0, 1: the path of two entries
\* has been cut to the new node
C19_Witness ==
    /\ last.op \in HeaderOps
    /\ last.err = "none"
    /\ last.level = 0
    /\ Len(doc.outline) = 3
    /\ docOutlines = <<3>>
    /\ doc.outline[2].parent = 1

\* C20: a finish() call that returns has switched to every page once, in
\* increasing index order, has drawn its texts on pages whose margins were zero
\* at the time, leaves the margins of every page and the style stack as they
\* were, and has issued the seal operation once, as its last call.
C20_FinishFrame ==
    [][(last'.op = "finish" /\ last'.err = "none")
         => LET visits == SelectSeq(calls', LAMBDA c : c.kind = "switchToPage")
                texts == SelectSeq(calls', LAMBDA c : c.kind = "text")
            IN  /\ Len(visits) = Len(doc.pages)
                /\ \A i \in 1 .. Len(visits) :
                      /\ visits[i].n = i - 1
                      /\ visits[i].margins = doc.pages[i]
                /\ \A k \in 1 .. Len(texts) :
                      texts[k].margins = [top |-> 0, bottom |-> 0]
                /\ doc'.pages = doc.pages
                /\ styleStack' = styleStack
                /\ Seals(calls') = {Len(calls')}]_vars

\* a finishing pass over three pages with two styles pushed
C20_Witness ==
    /\ last.op = "finish"
    /\ last.err = "none"
    /\ Len(doc.pages) = 3
    /\ Len(styleStack) = 2
    /\ doc.ended
    /\ \A i \in 1 .. 3 : doc.pages[i].top = style.format.verticalMargin

\* C21: the name recorded for a page is the section name current when the page is
\* created and is not changed afterwards; a finish() call that returns draws, on
\* every page i >= 1, a running header exactly when the name recorded for page i
\* is not empty, and the header is that name.
C21_HeaderIsNameAtCreation ==
    [][/\ \A i \in 1 .. Len(pageHeaderNodes) : pageHeaderNodes'[i] = pageHeaderNodes[i]
       /\ \A i \in Len(pageHeaderNodes) + 1 .. Len(pageHeaderNodes') :
             pageHeaderNodes'[i] = currentSectionName'
       /\ (last'.op = "finish" /\ last'.err = "none")
             => \A i \in 1 .. Len(doc.pages) - 1 :
                   LET headers == SelectSeq(calls', LAMBDA c :
                                      /\ c.kind = "text"
                                      /\ c.page = i
                                      /\ c.opt.y = style.format.verticalMargin \div 2)
                   IN  IF pageHeaderNodes[i + 1] # ""
                       THEN /\ Len(headers) = 1
                            /\ headers[1].str = pageHeaderNodes[i + 1]
                       ELSE headers = <<>>]_vars

\* a finishing pass while "Users" is the current section, over a page created
\* under "Pets" and a page created before any section
C21_Witness ==
    /\ last.op = "finish"
    /\ last.err = "none"
    /\ currentSectionName = "Users"
    /\ Len(doc.pages) = 3
    /\ pageHeaderNodes = <<"", "Pets", "Users">>
    /\ \E k \in 1 .. Len(Texts) : Texts[k].page = 1 /\ Texts[k].str = "Pets"

\* C22: when header or apiHeader fails with the nesting error, the texts of the
\* heading have been drawn by the call, the style stack is as deep as before the
\* call (and holds the same styles), and the outline tree and the path array are
\* unchanged.
C22_DrawnBeforeValidated ==
    [][(last'.op \in HeaderOps /\ last'.err = "nesting")
         => LET texts == SelectSeq(calls', LAMBDA c : c.kind = "text")
            IN  /\ texts # <<>>
                /\ last'.op = "header" => texts[1].str = "Title"
                /\ last'.op = "apiHeader"
                      => /\ Len(texts) = 4
                         /\ texts[1].str \in Methods
                         /\ texts[4].str = "  /users"
                /\ Len(styleStack') = Len(styleStack)
                /\ styleStack' = styleStack
                /\ doc'.outline = doc.outline
                /\ docOutlines' = docOutlines]_vars

\* header(2, "Title") on a path of one entry, with one style on the stack
C22_Witness ==
    /\ last.op = "header"
    /\ last.err = "nesting"
    /\ last.level = 2
    /\ Len(docOutlines) = 1
    /\ Len(styleStack) = 1
    /\ Len(Texts) = 1
    /\ Texts[1].str = "Title"

\* C23: a call of apiHeader that returns has issued, in this order: the two
\* measurements of the method label under the pushed bold style, the label
\* (continued), a blank, one move up, the rectangle for the measured label, the
\* label in white (continued), the endpoint text and the closing line break; the
\* outline then holds one more node, titled method and endpoint.  A call whose
\* first label print fails has drawn no rectangle and no text and has added no
\* outline node.
C23_ApiHeaderOrder ==
    [][last'.op = "apiHeader"
         => IF last'.err = "none"
            THEN /\ [i \in 1 .. Len(calls') |-> calls'[i].kind]
                       = <<"widthOfString", "heightOfString", "text", "text", "moveUp",
                           "rect", "text", "text", "moveDown">>
                 /\ \A i \in 1 .. Len(calls') :
                       Len(calls'[i].stack) >= Len(styleStack) + 1
                 /\ calls'[1].str \in Methods
                 /\ calls'[1].font = fonts[BOLD + 1]
                 /\ calls'[2].str = calls'[1].str
                 /\ calls'[3].str = calls'[1].str
                 /\ calls'[3].opt.continued
                 /\ calls'[3].fillColor # "white"
                 /\ calls'[4].str = " "
                 /\ calls'[6].str = calls'[1].str
                 /\ calls'[7].str = calls'[1].str
                 /\ calls'[7].opt.continued
                 /\ calls'[7].fillColor = "white"
                 /\ calls'[8].str = "  /users"
                 /\ ~ calls'[8].opt.continued
                 /\ Len(doc'.outline) = Len(doc.outline) + 1
                 /\ doc'.outline[Len(doc'.outline)].title = calls'[1].str \o " /users"
            ELSE /\ \A i \in 1 .. Len(calls') : calls'[i].kind \notin {"text", "rect"}
                 /\ doc'.outline = doc.outline]_vars

\* apiHeader("GET", "/users", 0) has returned with its nine operations and its node
C23_Witness ==
    /\ last.op = "apiHeader"
    /\ last.err = "none"
    /\ Len(calls) = 9
    /\ calls[6].kind = "rect"
    /\ calls[7].fillColor = "white"
    /\ doc.outline # <<>>
    /\ doc.outline[Len(doc.outline)].title = "GET /users"

====
